---- MODULE Spec2Model ----
(***************************************************************************)
(* A model of the tsm1 file format code: the byte primitives, IndexEntry,  *)
(* the direct and the indirect index, the TSM writer and the TSM reader.   *)
(* Bytes are the naturals 0..255, a byte slice is a sequence of bytes, a   *)
(* key is the byte sequence of a Go string.                                *)
(***************************************************************************)
EXTENDS Integers, Sequences, FiniteSets, TLC

\* ------------------------------------------------------------------------
\* Bounds of the model
\* ------------------------------------------------------------------------

\* Number of Write calls one writer receives.
MaxWrites == 3

\* Number of Close calls one writer receives.
MaxCloses == 2

\* Number of Add calls made on the stand-alone direct index.
MaxAdds == 3

\* Largest timestamp tried against IndexEntry.Contains.
MaxT == 3

\* The most Write calls that the sink rejects.
MaxRejects == 1

\* The most Metrics a CloudWatch plugin is configured with.
MaxMetrics == 2

\* The most values in the slices given to Deduplicate.
MaxDedupLen == 3

\* The most entries under one key in the indexes whose sorting is examined.
MaxSortLen == 7

\* ------------------------------------------------------------------------
\* Program constants
\* ------------------------------------------------------------------------

MagicNumber == 382801617   \* 0x16D116D1

Version == 1

indexEntrySize == 28

encodedBlockHeaderSize == 9

BlockFloat64 == 0

\* The size of the buffer Read and ReadAll allocate: 16*1024.
readBufSize == 16384

\* A value of the model's integers standing for every 64-bit or 32-bit value
\* that lies outside of them.
OutOfRange == ((2 ^ 30) - 1) * 2 + 1

\* ------------------------------------------------------------------------
\* Byte primitives
\* ------------------------------------------------------------------------

Min2(a, b) == IF a < b THEN a ELSE b

Max2(a, b) == IF a > b THEN a ELSE b

\* Go's b[i:j] on a slice without spare capacity: the bytes i .. j-1
\* (0-based); it panics unless 0 <= i <= j <= len(b).
SliceOK(b, i, j) == 0 <= i /\ i <= j /\ j <= Len(b)

Slice(b, i, j) == SubSeq(b, i + 1, j)

\* The big-endian bytes of a natural number below 256^w.
BigEndian(v, w) == [i \in 1..w |-> (v \div (256 ^ (w - i))) % 256]

RECURSIVE FromBigEndian(_)
FromBigEndian(b) ==
    IF Len(b) = 0 THEN 0
    ELSE 256 * FromBigEndian(SubSeq(b, 1, Len(b) - 1)) + b[Len(b)]

u16tob(v) == BigEndian(v % 65536, 2)

btou16(b) == FromBigEndian(SubSeq(b, 1, 2))

u32tob(v) == BigEndian(v, 4)

btou32(b) ==
    IF b[1] >= 128 THEN OutOfRange ELSE FromBigEndian(SubSeq(b, 1, 4))

\* u64tob(uint64(v)) for a signed v: the two's complement of a negative v.
u64tob(v) ==
    IF v >= 0
    THEN <<0, 0, 0, 0>> \o BigEndian(v, 4)
    ELSE [i \in 1..8 |-> 255 - (<<0, 0, 0, 0>> \o BigEndian(-v - 1, 4))[i]]

\* int64(btou64(b)): every use in the code converts the result to int64.
btou64(b) ==
    LET hi == SubSeq(b, 1, 4)
        lo == SubSeq(b, 5, 8)
    IN  IF hi = <<0, 0, 0, 0>> /\ lo[1] < 128 THEN FromBigEndian(lo)
        ELSE IF hi = <<255, 255, 255, 255>> /\ lo[1] >= 128
             THEN -(FromBigEndian([i \in 1..4 |-> 255 - lo[i]])) - 1
        ELSE IF b[1] < 128 THEN OutOfRange ELSE -OutOfRange

\* binary.PutUvarint: little-endian base-128, the high bit set on every byte
\* but the last one.
RECURSIVE PutUvarint(_)
PutUvarint(v) ==
    IF v < 128 THEN <<v>> ELSE <<128 + (v % 128)>> \o PutUvarint(v \div 128)

\* binary.Uvarint: the value and the number of bytes read; n = 0 when the
\* buffer ends inside the number.
RECURSIVE Uvarint(_)
Uvarint(buf) ==
    IF Len(buf) = 0 THEN [v |-> 0, n |-> 0]
    ELSE IF buf[1] < 128 THEN [v |-> buf[1], n |-> 1]
    ELSE LET r == Uvarint(Tail(buf))
         IN  IF r.n = 0 THEN [v |-> 0, n |-> 0]
             ELSE [v |-> (buf[1] - 128) + 128 * r.v, n |-> r.n + 1]

\* ------------------------------------------------------------------------
\* crc32.ChecksumIEEE, bit by bit.  A 32-bit word is the tuple of its four
\* bytes, the most significant first.
\* ------------------------------------------------------------------------

bit(a, k) == (a \div (2 ^ k)) % 2

xorBit(a, b, k) == ((bit(a, k) + bit(b, k)) % 2) * (2 ^ k)

xorByte(a, b) ==
    xorBit(a, b, 0) + xorBit(a, b, 1) + xorBit(a, b, 2) + xorBit(a, b, 3)
    + xorBit(a, b, 4) + xorBit(a, b, 5) + xorBit(a, b, 6) + xorBit(a, b, 7)

xorWord(a, b) ==
    <<xorByte(a[1], b[1]), xorByte(a[2], b[2]), xorByte(a[3], b[3]),
      xorByte(a[4], b[4])>>

\* w >> 1
shiftWord(w) ==
    <<w[1] \div 2, ((w[1] % 2) * 128) + (w[2] \div 2),
      ((w[2] % 2) * 128) + (w[3] \div 2), ((w[3] % 2) * 128) + (w[4] \div 2)>>

\* The reversed IEEE polynomial 0xEDB88320.
crcPoly == <<237, 184, 131, 32>>

crcOnes == <<255, 255, 255, 255>>

\* k rounds of: shift right by one bit, and xor the polynomial in when the
\* bit shifted out is set.
RECURSIVE crcRounds(_, _)
crcRounds(w, k) ==
    IF k = 0 THEN w
    ELSE IF w[4] % 2 = 1
    THEN crcRounds(xorWord(shiftWord(w), crcPoly), k - 1)
    ELSE crcRounds(shiftWord(w), k - 1)

\* One byte enters the checksum register.
crcByte(w, byte) == crcRounds(<<w[1], w[2], w[3], xorByte(w[4], byte)>>, 8)

\* The checksum register w after the bytes i, i+1, ... of p have entered
\* it.  (A register is never empty: the test makes TLC evaluate w before it
\* goes on to the next byte, which keeps the evaluation shallow.)
RECURSIVE crcUpdate(_, _, _)
crcUpdate(w, p, i) ==
    IF Len(w) = 0 \/ i > Len(p) THEN w
    ELSE crcUpdate(crcByte(w, p[i]), p, i + 1)

\* u32tob(crc32.ChecksumIEEE(p)): the four big-endian bytes of the checksum.
ChecksumIEEE(p) == xorWord(crcUpdate(crcOnes, p, 1), crcOnes)

\* ------------------------------------------------------------------------
\* Values and the block codec (encoding.go).  A value is a record
\* [time, value] standing for a FloatValue; Values is a sequence of values.
\* ------------------------------------------------------------------------

\* The timestamp codec (NewTimeEncoder / NewTimeDecoder): opaque bytes, here
\* eight big-endian bytes per timestamp.
encodeTimes(values) ==
    IF Len(values) = 0 THEN <<>>
    ELSE LET parts == [i \in 1..Len(values) |-> u64tob(values[i].time)]
         IN  [j \in 1..(8 * Len(values)) |->
                parts[((j - 1) \div 8) + 1][((j - 1) % 8) + 1]]

decodeTimes(tb) ==
    [i \in 1..(Len(tb) \div 8) |-> btou64(SubSeq(tb, 8 * i - 7, 8 * i))]

\* The float codec (NewFloatEncoder / NewFloatDecoder): opaque bytes, here
\* one byte per value.
encodeFloats(values) == [i \in 1..Len(values) |-> values[i].value]

decodeFloats(vb) == vb

packBlockHeader(firstTime, blockType) == Append(u64tob(firstTime), blockType)

packBlock(ts, values) == (PutUvarint(Len(ts)) \o ts) \o values

\* unpackBlock slices buf[i : i+tsLen] and buf[i+tsLen:], which panics when
\* the length read reaches beyond the buffer.
unpackBlock(buf) ==
    LET u == Uvarint(buf)
    IN  IF ~SliceOK(buf, u.n, u.n + u.v)
        THEN [status |-> "panic", ts |-> <<>>, values |-> <<>>]
        ELSE [status |-> "ok", ts |-> Slice(buf, u.n, u.n + u.v),
              values |-> Slice(buf, u.n + u.v, Len(buf))]

encodeFloatBlock(values) ==
    IF Len(values) = 0 THEN <<>>
    ELSE packBlockHeader(values[1].time, BlockFloat64)
         \o packBlock(encodeTimes(values), encodeFloats(values))

\* Values.Encode: panics on an empty list.
Encode(values) ==
    IF Len(values) = 0 THEN [status |-> "panic", b |-> <<>>]
    ELSE [status |-> "ok", b |-> encodeFloatBlock(values)]

\* Decodes a timestamp and a value while both decoders have one.
decodeFloatBlock(block) ==
    LET u == unpackBlock(Slice(block, 9, Len(block)))
    IN  IF u.status # "ok" THEN [status |-> "panic", values |-> <<>>]
        ELSE LET ts == decodeTimes(u.ts)
                 vs == decodeFloats(u.values)
             IN  [status |-> "ok",
                  values |-> [i \in 1..Min2(Len(ts), Len(vs)) |->
                                [time |-> ts[i], value |-> vs[i]]]]

\* DecodeBlock: panics on a short block and on an unknown block type; the
\* blocks of the three other value types are not decoded by this model.
DecodeBlock(block) ==
    IF Len(block) <= encodedBlockHeaderSize
    THEN [status |-> "panic", values |-> <<>>]
    ELSE IF block[9] = BlockFloat64 THEN decodeFloatBlock(block)
    ELSE IF block[9] \in 1..3 THEN [status |-> "othertype", values |-> <<>>]
    ELSE [status |-> "panic", values |-> <<>>]

\* Values.Less
ValuesLess(a, i, j) == a[i].time < a[j].time

\* sort.Sort(Values(other)) on at most six values: insertionSort, on every
\* toolchain.
RECURSIVE valuesSinkDown(_, _)
valuesSinkDown(a, j) ==
    IF j > 1 /\ ValuesLess(a, j, j - 1)
    THEN valuesSinkDown([a EXCEPT ![j] = a[j - 1], ![j - 1] = a[j]], j - 1)
    ELSE a

RECURSIVE valuesInsertionSort(_, _)
valuesInsertionSort(a, i) ==
    IF i > Len(a) THEN a
    ELSE valuesInsertionSort(valuesSinkDown(a, i), i + 1)

sortValues(a) == valuesInsertionSort(a, 2)

\* The map m after "for _, val := range a { m[val.UnixNano()] = val }"
\* over the first n values of a.
RECURSIVE dedupMap_KeepFirst(_, _)
dedupMap_KeepFirst(a, n) ==
    IF n = 0 THEN << >>
    ELSE LET m == dedupMap_KeepFirst(a, n - 1)
         IN  [t \in (DOMAIN m) \cup {a[n].time} |->
                 IF t \in DOMAIN m THEN m[t] ELSE a[n]]

RECURSIVE dedupMap(_, _)
dedupMap(a, n) ==
    IF n = 0 THEN << >>
    ELSE LET m == dedupMap(a, n - 1)
         IN  [t \in (DOMAIN m) \cup {a[n].time} |->
                 IF t = a[n].time THEN a[n] ELSE m[t]]

\* The orders in which "for _, val := range m" can visit the keys of m.
MapOrders(m) ==
    {o \in [1..Cardinality(DOMAIN m) -> DOMAIN m] :
        \A i \in DOMAIN o : \A j \in DOMAIN o : o[i] = o[j] => i = j}

\* Values.Deduplicate when the map is ranged over in the given order.
Deduplicate(a, order) ==
    LET m == dedupMap(a, Len(a))
        other == [i \in 1..Len(order) |-> m[order[i]]]
    IN  sortValues(other)

\* ------------------------------------------------------------------------
\* IndexEntry
\* ------------------------------------------------------------------------

IndexEntry(minTime, maxTime, offset, size) ==
    [MinTime |-> minTime, MaxTime |-> maxTime, Offset |-> offset,
     Size |-> size]

\* The 28 bytes MarshalBinary appends for one entry.
entryBytes(e) ==
    ((u64tob(e.MinTime) \o u64tob(e.MaxTime)) \o u64tob(e.Offset))
    \o u32tob(e.Size)

\* UnmarshalBinary that reads MaxTime from the bytes of MinTime.
IndexEntry_UnmarshalBinary_MaxFromMin(b) ==
    IndexEntry(btou64(SubSeq(b, 1, 8)), btou64(SubSeq(b, 1, 8)),
               btou64(SubSeq(b, 17, 24)), btou32(SubSeq(b, 25, 28)))

\* IndexEntry.UnmarshalBinary on a buffer of indexEntrySize bytes.
IndexEntry_UnmarshalBinary(b) ==
    IndexEntry(btou64(SubSeq(b, 1, 8)), btou64(SubSeq(b, 9, 16)),
               btou64(SubSeq(b, 17, 24)), btou32(SubSeq(b, 25, 28)))

\* Contains with MaxTime exclusive.
Contains_ExclusiveMax(e, t) ==
    \/ e.MinTime = t
    \/ (e.MinTime < t /\ e.MaxTime > t)

\* IndexEntry.Contains as Go parses it: && binds tighter than ||.
Contains(e, t) ==
    \/ e.MinTime = t
    \/ (e.MinTime < t /\ e.MaxTime = t)
    \/ e.MaxTime > t

\* ------------------------------------------------------------------------
\* Keys and sorting
\* ------------------------------------------------------------------------

\* Go's string comparison: bytewise lexicographic.
RECURSIVE KeyLess(_, _)
KeyLess(a, b) ==
    IF Len(b) = 0 THEN FALSE
    ELSE IF Len(a) = 0 THEN TRUE
    ELSE IF a[1] # b[1] THEN a[1] < b[1]
    ELSE KeyLess(Tail(a), Tail(b))

\* sort.Strings on the keys of a map: the keys in ascending order.
RECURSIVE sortStrings(_)
sortStrings(keys) ==
    IF keys = {} THEN <<>>
    ELSE LET m == CHOOSE k \in keys : \A o \in keys \ {k} : KeyLess(k, o)
         IN  <<m>> \o sortStrings(keys \ {m})

\* indexEntries.Less
Less(a, i, j) == a[i].MinTime < a[j].MinTime

Swap(a, i, j) == [a EXCEPT ![i] = a[j], ![j] = a[i]]

\* sort.Sort on a slice of at most seven elements is Go's insertionSort:
\* element i moves down while it is Less than its predecessor.
RECURSIVE sinkDown(_, _)
sinkDown(a, j) ==
    IF j > 1 /\ Less(a, j, j - 1) THEN sinkDown(Swap(a, j, j - 1), j - 1)
    ELSE a

RECURSIVE insertionSort(_, _)
insertionSort(a, i) ==
    IF i > Len(a) THEN a ELSE insertionSort(sinkDown(a, i), i + 1)

sortEntries(a) == insertionSort(a, 2)

\* sort.Sort on a slice of at most twelve elements as the toolchains from
\* Go 1.6 to Go 1.18 build it: one pass of ShellSort with gap 6 (element i
\* is swapped with element i-6 when it is Less), then insertionSort.  On at
\* most six elements the pass does nothing.
RECURSIVE shellPass(_, _)
shellPass(a, i) ==
    IF i > Len(a) THEN a
    ELSE IF Less(a, i, i - 6) THEN shellPass(Swap(a, i, i - 6), i + 1)
    ELSE shellPass(a, i + 1)

\* The builds of sort.Sort on a short slice: insertionSort alone, or the
\* ShellSort pass before it.
SortBuilds == {"insertion", "shell"}

\* sort.Sort(entries) under a build.
sortEntriesOn(a, build) ==
    IF build = "shell" THEN insertionSort(shellPass(a, 7), 2)
    ELSE sortEntries(a)

\* ------------------------------------------------------------------------
\* directIndex: blocks is a function from the keys present in the Go map to
\* their entry lists.
\* ------------------------------------------------------------------------

NewDirectIndex == << >>

directIndex_Entries(blocks, key) ==
    IF key \in DOMAIN blocks THEN blocks[key] ELSE <<>>

\* d.blocks[key] = append(d.blocks[key], entries...)
addEntries(blocks, key, entries) ==
    [k \in (DOMAIN blocks) \cup {key} |->
        IF k = key THEN directIndex_Entries(blocks, key) \o entries
        ELSE blocks[k]]

\* Add that keeps one entry for each MinTime under a key: an entry whose
\* MinTime the key already holds takes the place of the one held.
directIndex_Add_KeepLast(blocks, key, minTime, maxTime, offset, size) ==
    LET held == directIndex_Entries(blocks, key)
        kept == SelectSeq(held, LAMBDA e : e.MinTime # minTime)
    IN  [k \in (DOMAIN blocks) \cup {key} |->
            IF k = key
            THEN Append(kept, IndexEntry(minTime, maxTime, offset, size))
            ELSE blocks[k]]

directIndex_Add(blocks, key, minTime, maxTime, offset, size) ==
    addEntries(blocks, key, <<IndexEntry(minTime, maxTime, offset, size)>>)

\* The nil *IndexEntry.
NilEntry == [nil |-> TRUE]

RECURSIVE firstContaining(_, _, _)
firstContaining(entries, t, i) ==
    IF i > Len(entries) THEN NilEntry
    ELSE IF Contains(entries[i], t) THEN entries[i]
    ELSE firstContaining(entries, t, i + 1)

directIndex_Entry(blocks, key, t) ==
    firstContaining(directIndex_Entries(blocks, key), t, 1)

\* The key record MarshalBinary appends for one key.
keyRecord(key, entries) ==
    LET parts == [i \in 1..Len(entries) |-> entryBytes(entries[i])]
    IN  ((u16tob(Len(key)) \o key) \o u16tob(Len(entries)))
        \o [j \in 1..(indexEntrySize * Len(entries)) |->
              parts[((j - 1) \div indexEntrySize) + 1]
                   [((j - 1) % indexEntrySize) + 1]]

RECURSIVE marshalKeys(_, _, _)
marshalKeys(blocks, keys, i) ==
    IF i > Len(keys) THEN <<>>
    ELSE keyRecord(keys[i], blocks[keys[i]]) \o marshalKeys(blocks, keys, i + 1)

\* MarshalBinary sorting a copy of every entry list: the bytes are the same
\* and the index is left as it was.
directIndex_MarshalBinary_ReadOnly(blocks) ==
    LET sorted == [k \in DOMAIN blocks |-> sortEntries(blocks[k])]
    IN  [b |-> marshalKeys(sorted, sortStrings(DOMAIN blocks), 1),
         blocks |-> blocks]

\* directIndex.MarshalBinary sorts every entry list in place and returns the
\* key records in ascending key order: the result is the byte slice and the
\* index as the call leaves it.
directIndex_MarshalBinary(blocks) ==
    LET sorted == [k \in DOMAIN blocks |-> sortEntries(blocks[k])]
    IN  [b |-> marshalKeys(sorted, sortStrings(DOMAIN blocks), 1),
         blocks |-> sorted]

\* directIndex.MarshalBinary under a build of sort.Sort; the builds agree
\* with directIndex_MarshalBinary while no key has more than six entries.
directIndex_MarshalBinary_On(blocks, build) ==
    LET sorted == [k \in DOMAIN blocks |-> sortEntriesOn(blocks[k], build)]
    IN  [b |-> marshalKeys(sorted, sortStrings(DOMAIN blocks), 1),
         blocks |-> sorted]

\* readKey: the two length bytes and the key; a slice expression panics when
\* the buffer is too short.
readKey(b) ==
    IF ~SliceOK(b, 0, 2) THEN [status |-> "panic", n |-> 0, key |-> <<>>]
    ELSE LET size == btou16(b)
         IN  IF ~SliceOK(b, 2, 2 + size)
             THEN [status |-> "panic", n |-> 0, key |-> <<>>]
             ELSE [status |-> "ok", n |-> 2 + size,
                   key |-> Slice(b, 2, 2 + size)]

\* readEntries: the two count bytes and count entries of 28 bytes.
readEntries(b) ==
    IF ~SliceOK(b, 0, 2) THEN [status |-> "panic", n |-> 0, entries |-> <<>>]
    ELSE LET count == btou16(b)
         IN  IF count > 0 /\ ~SliceOK(b, 2, 2 + (count * indexEntrySize))
             THEN [status |-> "panic", n |-> 0, entries |-> <<>>]
             ELSE [status |-> "ok", n |-> 2 + (count * indexEntrySize),
                   entries |-> [i \in 1..count |->
                       IndexEntry_UnmarshalBinary(
                           Slice(b, ((i - 1) * indexEntrySize) + 2,
                                 (i * indexEntrySize) + 2))]]

\* directIndex.UnmarshalBinary: one key record after the other until the
\* cursor reaches the end of the buffer.
RECURSIVE unmarshalFrom(_, _, _)
unmarshalFrom(blocks, b, pos) ==
    IF pos >= Len(b) THEN [status |-> "ok", blocks |-> blocks]
    ELSE LET k == readKey(Slice(b, pos, Len(b)))
         IN  IF k.status # "ok" THEN [status |-> "panic", blocks |-> blocks]
             ELSE LET e == readEntries(Slice(b, pos + k.n, Len(b)))
                  IN  IF e.status # "ok"
                      THEN [status |-> "panic", blocks |-> blocks]
                      ELSE unmarshalFrom(addEntries(blocks, k.key, e.entries),
                                         b, pos + k.n + e.n)

directIndex_UnmarshalBinary(blocks, b) == unmarshalFrom(blocks, b, 0)

\* ------------------------------------------------------------------------
\* indirectIndex: the index bytes b and the offsets of the key records in b
\* ------------------------------------------------------------------------

\* indirectIndex.UnmarshalBinary: skips from key record to key record and
\* collects the positions; b[i : i+2] panics when it reaches beyond b.
RECURSIVE indirectScan(_, _, _)
indirectScan(b, i, offsets) ==
    IF i >= Len(b) THEN [status |-> "ok", b |-> b, offsets |-> offsets]
    ELSE IF ~SliceOK(b, i, i + 2)
    THEN [status |-> "panic", b |-> b, offsets |-> Append(offsets, i)]
    ELSE LET keyLen == btou16(Slice(b, i, i + 2))
             j == i + 2 + keyLen
         IN  IF ~SliceOK(b, j, j + 2)
             THEN [status |-> "panic", b |-> b,
                   offsets |-> Append(offsets, i)]
             ELSE indirectScan(b,
                      j + 2 + (btou16(Slice(b, j, j + 2)) * indexEntrySize),
                      Append(offsets, i))

indirectIndex_UnmarshalBinary(b) == indirectScan(b, 0, <<>>)

\* The closure Entries hands to sort.Search: the key at position i of the
\* offsets is the target or greater than it.  (i is 0-based.)
probeOK(d, i) ==
    LET offset == d.offsets[i + 1]
    IN  /\ SliceOK(d.b, offset, offset + 2)
        /\ SliceOK(d.b, offset + 2,
                   offset + 2 + btou16(Slice(d.b, offset, offset + 2)))

probeKey(d, i) ==
    LET offset == d.offsets[i + 1]
    IN  Slice(d.b, offset + 2,
              offset + 2 + btou16(Slice(d.b, offset, offset + 2)))

\* probe without "key == k".
probe_Strict(d, key, i) == KeyLess(key, probeKey(d, i))

probe(d, key, i) == key = probeKey(d, i) \/ KeyLess(key, probeKey(d, i))

\* sort.Search(n, f): the binary search of Go's sort package; -1 stands for
\* a panic inside the closure.
RECURSIVE sortSearch(_, _, _, _)
sortSearch(d, key, i, j) ==
    IF i >= j THEN i
    ELSE LET h == i + ((j - i) \div 2)
         IN  IF ~probeOK(d, h) THEN -1
             ELSE IF ~probe(d, key, h) THEN sortSearch(d, key, h + 1, j)
             ELSE sortSearch(d, key, i, h)

\* Entries without "if k != key": the entries of the record found are
\* returned whatever its key.
indirectIndex_Entries_NoKeyCheck(d, key) ==
    LET i == sortSearch(d, key, 0, Len(d.offsets))
    IN  IF i < 0 THEN [status |-> "panic", entries |-> <<>>]
        ELSE IF i < Len(d.offsets)
        THEN LET ofs == d.offsets[i + 1]
                 k == readKey(Slice(d.b, ofs, Len(d.b)))
             IN  IF k.status # "ok"
                 THEN [status |-> "panic", entries |-> <<>>]
                 ELSE LET e == readEntries(Slice(d.b, ofs + k.n, Len(d.b)))
                      IN  [status |-> e.status, entries |-> e.entries]
        ELSE [status |-> "ok", entries |-> <<>>]

\* indirectIndex.Entries
indirectIndex_Entries(d, key) ==
    LET i == sortSearch(d, key, 0, Len(d.offsets))
    IN  IF i < 0 THEN [status |-> "panic", entries |-> <<>>]
        ELSE IF i < Len(d.offsets)
        THEN LET ofs == d.offsets[i + 1]
                 k == readKey(Slice(d.b, ofs, Len(d.b)))
             IN  IF k.status # "ok"
                 THEN [status |-> "panic", entries |-> <<>>]
                 ELSE IF k.key # key THEN [status |-> "ok", entries |-> <<>>]
                 ELSE LET e == readEntries(Slice(d.b, ofs + k.n, Len(d.b)))
                      IN  [status |-> e.status, entries |-> e.entries]
        ELSE [status |-> "ok", entries |-> <<>>]

\* ------------------------------------------------------------------------
\* The CloudWatch plugin.  A pointer is a sequence of no element (nil) or of
\* one element; a Metric is the record of its Namespace, MetricNames and
\* Dimensions; the accumulator is the sequence of the points added to it.
\* ------------------------------------------------------------------------

\* copyDims: a new map with the entries of dims.
copyDims(dims) == [k \in DOMAIN dims |-> dims[k]]

\* resp, err := svc.GetMetricStatistics(params): the service answers with
\* reply, an error or the datapoints under the label of the metric asked for.
GetMetricStatistics(params, reply) ==
    [err |-> reply.err, Label |-> <<params.MetricName>>,
     Datapoints |-> reply.Datapoints]

\* The loop over resp.Datapoints: acc.Add of the label, the average, a copy
\* of the dimensions and the timestamp; dereferencing a nil pointer panics
\* before acc.Add is called.
RECURSIVE addDatapoints(_, _, _, _)
addDatapoints(acc, resp, dims, i) ==
    IF i > Len(resp.Datapoints) THEN [status |-> "ok", acc |-> acc]
    ELSE LET d == resp.Datapoints[i]
         IN  IF resp.Label = <<>> \/ d.Average = <<>> \/ d.Timestamp = <<>>
             THEN [status |-> "panic", acc |-> acc]
             ELSE addDatapoints(
                      Append(acc, [measurement |-> resp.Label[1],
                                   value |-> d.Average[1],
                                   tags |-> copyDims(dims),
                                   t |-> d.Timestamp[1]]),
                      resp, dims, i + 1)

\* The loop over m.MetricNames from the i-th name on.  asked is the list of
\* the requests this call made, each with the reply it got; used is the
\* number of requests made before this call.
RECURSIVE pushNames(_, _, _, _, _, _)
pushNames(m, i, acc, asked, replies, used) ==
    IF i > Len(m.MetricNames)
    THEN [status |-> "nil", acc |-> acc, requests |-> asked]
    ELSE LET params == [Namespace |-> m.Namespace,
                        MetricName |-> m.MetricNames[i]]
             reply == replies[used + Len(asked) + 1]
             resp == GetMetricStatistics(params, reply)
             now == Append(asked, [params |-> params, reply |-> reply])
         IN  IF resp.err
             THEN [status |-> "error", acc |-> acc, requests |-> now]
             ELSE LET a == addDatapoints(acc, resp, m.Dimensions, 1)
                  IN  IF a.status = "panic"
                      THEN [status |-> "panic", acc |-> a.acc,
                            requests |-> now]
                      ELSE pushNames(m, i + 1, a.acc, now, replies, used)

\* Metric.PushMetrics: what it returned (nil, an error, or a panic), the
\* accumulator as it leaves it and the requests it made.
PushMetrics(m, acc, replies, used) == pushNames(m, 1, acc, <<>>, replies, used)

\* Gather before it is called.
NoGather ==
    [done |-> FALSE, status |-> "nil", Debug |-> FALSE, pushes |-> <<>>,
     requests |-> <<>>, acc |-> <<>>]

\* The loop over cw.Metrics from the i-th Metric on: the value PushMetrics
\* returns is dropped; a panic ends the call.
RECURSIVE gatherFrom(_, _, _, _)
gatherFrom(c, i, g, replies) ==
    IF i > Len(c.Metrics) THEN [g EXCEPT !.done = TRUE, !.status = "nil"]
    ELSE LET p == PushMetrics(c.Metrics[i], g.acc, replies, Len(g.requests))
             g2 == [g EXCEPT !.pushes = Append(@, [status |-> p.status,
                                                  requests |-> p.requests]),
                             !.requests = @ \o p.requests,
                             !.acc = p.acc]
         IN  IF p.status = "panic"
             THEN [g2 EXCEPT !.done = TRUE, !.status = "panic"]
             ELSE gatherFrom(c, i + 1, g2, replies)

\* Gather returning the error of the first PushMetrics that fails: the
\* Metrics after it are not pushed.
CloudWatch_Gather_StopOnError(c, replies) ==
    LET g == gatherFrom(c, 1, [NoGather EXCEPT !.Debug = c.Debug], replies)
        failed == {i \in 1..Len(g.pushes) : g.pushes[i].status = "error"}
    IN  IF failed = {} THEN g
        ELSE LET k == CHOOSE i \in failed : \A j \in failed : i <= j
                 cut == [c EXCEPT !.Metrics = SubSeq(@, 1, k)]
             IN  [gatherFrom(cut, 1, [NoGather EXCEPT !.Debug = c.Debug],
                             replies) EXCEPT !.status = "error"]

\* CloudWatch.Gather: sets the package's Debug, pushes every Metric and
\* returns nil.
CloudWatch_Gather(c, replies) ==
    gatherFrom(c, 1, [NoGather EXCEPT !.Debug = c.Debug], replies)

\* ------------------------------------------------------------------------
\* Inputs
\* ------------------------------------------------------------------------

keyCpu == <<99, 112, 117>>      \* "cpu"

keyMem == <<109, 101, 109>>     \* "mem"

keyC == <<99>>                  \* "c"

keyD == <<100>>                 \* "d"

Second == 1000000000

Val(t, v) == [time |-> t, value |-> v]

\* The value lists of the Write calls.
blockZero == <<Val(0, 1)>>

blockSecond == <<Val(Second, 2)>>

blockA == <<Val(0, 1), Val(1, 2)>>

blockB == <<Val(2, 3), Val(3, 4)>>

\* The (key, values) pairs a Write call is made with.
WriteInputs ==
    {<<keyCpu, blockZero>>, <<keyMem, blockSecond>>, <<keyCpu, blockA>>,
     <<keyCpu, blockB>>, <<keyMem, blockA>>, <<keyMem, blockB>>}

\* The keys and timestamps the reader is asked for.
\* A Write of no values.
EmptyInputs == {<<keyCpu, <<>>>>}

\* The damages of a file: the byte at position n (from 0) changed, the last
\* byte set to 255, the first n bytes kept, the last n bytes dropped.
\* Position 0 lies in the magic number, 4 is the version, 5 lies in the
\* checksum of the first block and 27 in its payload.
DamageInputs ==
    {[kind |-> "none", n |-> 0],
     [kind |-> "set", n |-> 0], [kind |-> "set", n |-> 4],
     [kind |-> "set", n |-> 5], [kind |-> "set", n |-> 27],
     [kind |-> "footer", n |-> 0],
     [kind |-> "cut", n |-> 7], [kind |-> "cut", n |-> 8],
     [kind |-> "cut", n |-> 12], [kind |-> "chop", n |-> 1]}

\* The ways of mangling index bytes: the last chop bytes are dropped, head is
\* put before them and tail after them.  A record of keyLen 0 and no entries
\* is <<0, 0, 0, 0>>.
MangleInputs ==
    {[chop |-> 1, head |-> <<>>, tail |-> <<>>],
     [chop |-> 2, head |-> <<>>, tail |-> <<>>],
     [chop |-> 28, head |-> <<>>, tail |-> <<>>],
     [chop |-> 30, head |-> <<>>, tail |-> <<>>],
     [chop |-> 0, head |-> <<>>, tail |-> <<0>>],
     [chop |-> 0, head |-> <<>>, tail |-> <<0, 0>>],
     [chop |-> 0, head |-> <<>>, tail |-> <<0, 1>>],
     [chop |-> 0, head |-> <<>>, tail |-> <<0, 0, 0, 0>>],
     [chop |-> 0, head |-> <<0, 0, 0, 0>>, tail |-> <<>>]}

\* The Write calls made on a sink that can fail.
SinkInputs ==
    {<<keyCpu, blockA>>, <<keyCpu, blockB>>, <<keyMem, blockSecond>>}

\* How many bytes a sink takes of a block it rejects.
RejectAfter == {0, 4}

ReadKeys == {keyCpu, keyMem, keyD}

ReadTimes == {0, 1, 2, 3, Second}

\* The keys, entries and lookups of the stand-alone index.
AddKeys == {keyCpu, keyMem, keyC}

AddEntries ==
    {IndexEntry(0, 1, 10, 100), IndexEntry(-2, 3, 20, 200),
     IndexEntry(0, Second, 30, 300)}

LookupKeys == {keyCpu, keyMem, keyC, keyD, <<>>, <<99, 112>>, <<122>>}

\* ------------------------------------------------------------------------
\* tsmWriter: a record [w, index, n] of the bytes the sink has received, the
\* blocks of the direct index and the file position.
\* ------------------------------------------------------------------------

\* NewTSMWriter that writes the magic number without the version.
NewTSMWriter_NoVersion ==
    LET header == u32tob(MagicNumber)
    IN  [w |-> header, index |-> NewDirectIndex, n |-> Len(header)]

NewTSMWriter ==
    LET header == Append(u32tob(MagicNumber), Version)
    IN  [w |-> header, index |-> NewDirectIndex, n |-> Len(header)]

\* What Write hands to the sink: the checksum of the encoded block and the
\* block.
frameOf(values) ==
    LET block == Encode(values).b
    IN  ChecksumIEEE(block) \o block

\* frameOf on the value lists the model writes, computed once.
frameTable == [values \in {in[2] : in \in WriteInputs} |-> frameOf(values)]

blockFrame(values) ==
    IF values \in DOMAIN frameTable THEN frameTable[values]
    ELSE frameOf(values)

\* How tsmWriter.Write ends on a sink that accepts the bytes: values.Encode
\* panics on an empty list and returns no error otherwise.
tsmWriter_Write_Status(values) == Encode(values).status

\* Write that records the block after it has advanced the position: the
\* Offset is the end of the block.
tsmWriter_Write_OffsetAfter(t, key, values) ==
    LET frame == blockFrame(values)
        n == Len(frame)
    IN  [w |-> t.w \o frame,
         index |-> directIndex_Add(t.index, key, values[1].time,
                                   values[Len(values)].time, t.n + n, n),
         n |-> t.n + n]

\* Write that records the position after the block as its Size.
tsmWriter_Write_SizeIsPosition(t, key, values) ==
    LET frame == blockFrame(values)
        n == Len(frame)
    IN  [w |-> t.w \o frame,
         index |-> directIndex_Add(t.index, key, values[1].time,
                                   values[Len(values)].time, t.n, t.n + n),
         n |-> t.n + n]

\* Write without "t.n += int64(n)": the position pointer stays where it is.
tsmWriter_Write_NoAdvance(t, key, values) ==
    LET frame == blockFrame(values)
        n == Len(frame)
    IN  [w |-> t.w \o frame,
         index |-> directIndex_Add(t.index, key, values[1].time,
                                   values[Len(values)].time, t.n, n),
         n |-> t.n]

\* Write that takes both times of the entry from values[0].
tsmWriter_Write_MaxFromFirst(t, key, values) ==
    LET frame == blockFrame(values)
        n == Len(frame)
    IN  [w |-> t.w \o frame,
         index |-> directIndex_Add(t.index, key, values[1].time,
                                   values[1].time, t.n, n),
         n |-> t.n + n]

\* tsmWriter.Write of a non-empty value list on a sink that accepts the
\* bytes.
tsmWriter_Write(t, key, values) ==
    LET frame == blockFrame(values)
        n == Len(frame)
    IN  [w |-> t.w \o frame,
         index |-> directIndex_Add(t.index, key, values[1].time,
                                   values[Len(values)].time, t.n, n),
         n |-> t.n + n]

\* Write on a sink that rejects the bytes and the index entry is recorded
\* all the same.
tsmWriter_Write_Rejected_EntryAdded(t, key, values, taken) ==
    LET frame == blockFrame(values)
    IN  [w |-> t.w \o SubSeq(frame, 1, taken),
         index |-> directIndex_Add(t.index, key, values[1].time,
                                   values[Len(values)].time, t.n, taken),
         n |-> t.n]

\* tsmWriter.Write of a non-empty value list on a sink that rejects the
\* bytes: t.w.Write takes the first taken bytes and returns an error, which
\* Write returns.
tsmWriter_Write_Rejected(t, key, values, taken) ==
    LET frame == blockFrame(values)
    IN  [w |-> t.w \o SubSeq(frame, 1, taken), index |-> t.index, n |-> t.n]

\* Close that writes the position after the index into the footer.
tsmWriter_Close_FooterAfterIndex(t) ==
    LET m == directIndex_MarshalBinary(t.index)
    IN  [w |-> t.w \o (m.b \o u64tob(t.n + Len(m.b))), index |-> m.blocks,
         n |-> t.n]

\* tsmWriter.Close on a sink that accepts the bytes.
tsmWriter_Close(t) ==
    LET m == directIndex_MarshalBinary(t.index)
    IN  [w |-> t.w \o (m.b \o u64tob(t.n)), index |-> m.blocks, n |-> t.n]

\* ------------------------------------------------------------------------
\* tsmReader over a bytes.Reader holding src: a record
\* [status, src, indexStart, indexEnd, index].
\* ------------------------------------------------------------------------

readerFailed(status, src) ==
    [status |-> status, src |-> src, indexStart |-> 0, indexEnd |-> 0,
     index |-> NewDirectIndex]

\* NewTSMReader / tsmReader.init
NewTSMReader(src) ==
    LET size == Len(src)
        indexEnd == size - 8
    IN  IF size < 8 THEN readerFailed("error", src)
        ELSE LET indexStart == btou64(SubSeq(src, size - 7, size))
             IN  IF indexStart < 0 THEN readerFailed("error", src)
                 ELSE IF indexEnd - indexStart < 0
                 THEN readerFailed("panic", src)
                 ELSE LET u == directIndex_UnmarshalBinary(NewDirectIndex,
                                   Slice(src, indexStart, indexEnd))
                      IN  [status |-> u.status, src |-> src,
                           indexStart |-> indexStart, indexEnd |-> indexEnd,
                           index |-> u.blocks]

\* The n that t.r.Read(b) returns after the Seek to the entry's Offset: b
\* has bufLen bytes and is filled as far as src reaches.
readLen(src, entry, bufLen) == Min2(bufLen, Len(src) - entry.Offset)

\* b[4:n], the bytes handed to DecodeBlock.
decoderInput(src, entry, bufLen) ==
    Slice(src, entry.Offset + 4, entry.Offset + readLen(src, entry, bufLen))

\* Seek to the entry's Offset, Read into a buffer of bufLen bytes and decode
\* b[4:n]: the outcome of fetching one block.
fetchBlock(src, entry, bufLen) ==
    IF entry.Offset < 0 \/ entry.Offset >= Len(src)
    THEN [status |-> "error", values |-> <<>>]
    ELSE IF readLen(src, entry, bufLen) < 4
    THEN [status |-> "panic", values |-> <<>>]
    ELSE DecodeBlock(decoderInput(src, entry, bufLen))

\* Read without "if block == nil": the nil entry is dereferenced.
tsmReader_Read_NoNilCheck(t, key, timestamp) ==
    LET block == directIndex_Entry(t.index, key, timestamp)
    IN  IF block = NilEntry THEN [status |-> "panic", values |-> <<>>]
        ELSE fetchBlock(t.src, block, Max2(readBufSize, block.Size))

\* tsmReader.Read
tsmReader_Read(t, key, timestamp) ==
    LET block == directIndex_Entry(t.index, key, timestamp)
    IN  IF block = NilEntry THEN [status |-> "ok", values |-> <<>>]
        ELSE fetchBlock(t.src, block, Max2(readBufSize, block.Size))

\* readAllFrom with "values = temp" for "values = append(values, temp...)":
\* every block replaces what was read before it.
RECURSIVE readAllFrom_KeepLast(_, _, _, _, _)
readAllFrom_KeepLast(t, blocks, i, bufLen, values) ==
    IF i > Len(blocks) THEN [status |-> "ok", values |-> values]
    ELSE LET len == Max2(bufLen, blocks[i].Size)
             f == fetchBlock(t.src, blocks[i], len)
         IN  IF f.status # "ok" THEN [status |-> f.status, values |-> <<>>]
             ELSE readAllFrom_KeepLast(t, blocks, i + 1, len, f.values)

\* The loop of ReadAll: the buffer b is kept from block to block and grows to
\* the largest Size met.
RECURSIVE readAllFrom(_, _, _, _, _)
readAllFrom(t, blocks, i, bufLen, values) ==
    IF i > Len(blocks) THEN [status |-> "ok", values |-> values]
    ELSE LET len == Max2(bufLen, blocks[i].Size)
             f == fetchBlock(t.src, blocks[i], len)
         IN  IF f.status # "ok" THEN [status |-> f.status, values |-> <<>>]
             ELSE readAllFrom(t, blocks, i + 1, len, values \o f.values)

\* tsmReader.ReadAll
tsmReader_ReadAll(t, key) ==
    LET blocks == directIndex_Entries(t.index, key)
    IN  IF Len(blocks) = 0 THEN [status |-> "ok", values |-> <<>>]
        ELSE readAllFrom(t, blocks, 1, readBufSize, <<>>)

\* The Metrics a plugin is configured with: one of two names, one of one
\* name and one of none.
MetricInputs ==
    {[Namespace |-> "AWS/EC2", MetricNames |-> <<"CPUUtilization", "NetworkIn">>,
      Dimensions |-> [InstanceId |-> "i-1"]],
     [Namespace |-> "AWS/EC2", MetricNames |-> <<"NetworkOut">>,
      Dimensions |-> [InstanceId |-> "i-2"]],
     [Namespace |-> "AWS/EC2", MetricNames |-> <<>>,
      Dimensions |-> [InstanceId |-> "i-3"]]}

Datapoint(average, timestamp) ==
    [Average |-> <<average>>, Timestamp |-> <<timestamp>>]

\* What the service answers to one request: an error, no datapoint, two
\* datapoints, or two datapoints of which the second has no Average (the
\* statistic was not asked for).
Replies ==
    {[err |-> TRUE, Datapoints |-> <<>>],
     [err |-> FALSE, Datapoints |-> <<>>],
     [err |-> FALSE, Datapoints |-> <<Datapoint(1, 10), Datapoint(2, 20)>>],
     [err |-> FALSE,
      Datapoints |-> <<Datapoint(1, 10),
                       [Average |-> <<>>, Timestamp |-> <<20>>]>>]}

\* ------------------------------------------------------------------------
\* State
\* ------------------------------------------------------------------------

VARIABLES
    writer,      \* the tsmWriter: [w, index, n]
    ops,         \* the calls on the writer that returned, in order; a Write
                 \* that returned the error of its sink is a "WriteRejected"
    wres,        \* the last call made on the writer and how it ended
    reader,      \* the tsmReader, status "none" until NewTSMReader is called
    res,         \* the last call made on the reader and what it returned
    dIndex,      \* the blocks of a stand-alone directIndex
    adds,        \* the Add calls made on dIndex, in order
    marshalled,  \* what MarshalBinary returned for dIndex, and dIndex before
    decoded,     \* a fresh directIndex after UnmarshalBinary of those bytes
    indirect,    \* a fresh indirectIndex after UnmarshalBinary of those bytes
    lookup,      \* what Entries returned on decoded and on indirect for a key
    cEntry,      \* an IndexEntry
    cTime,       \* a timestamp
    cResult,     \* what cEntry.Contains(cTime) returned, once called
    dValues,     \* a Values slice
    dResult,     \* what dValues.Deduplicate() returned, once called
    cw,          \* the CloudWatch plugin, as configured
    cwResult     \* what Gather did and returned, once called

vars == <<writer, ops, wres, reader, res, dIndex, adds, marshalled, decoded,
          indirect, lookup, cEntry, cTime, cResult, dValues, dResult,
          cw, cwResult>>

writerVars == <<writer, ops, wres, reader, res>>

indexVars == <<dIndex, adds, marshalled, decoded, indirect, lookup>>

containsVars == <<cEntry, cTime, cResult>>

dedupVars == <<dValues, dResult>>

cloudVars == <<cw, cwResult>>

WriteOp(key, values) == [op |-> "Write", key |-> key, values |-> values]

CloseOp == [op |-> "Close", key |-> <<>>, values |-> <<>>]

NoResult ==
    [op |-> "none", key |-> <<>>, timestamp |-> 0, status |-> "ok",
     values |-> <<>>]

NoCall == [op |-> "none", key |-> <<>>, values |-> <<>>, status |-> "ok"]

InitWriter ==
    /\ writer = NewTSMWriter
    /\ ops = <<>>
    /\ wres = NoCall
    /\ reader = readerFailed("none", <<>>)
    /\ res = NoResult

InitIndex ==
    /\ dIndex = NewDirectIndex
    /\ adds = <<>>
    /\ marshalled = [done |-> FALSE, b |-> <<>>, before |-> NewDirectIndex]
    /\ decoded = [done |-> FALSE, status |-> "ok", blocks |-> NewDirectIndex]
    /\ indirect = [done |-> FALSE, status |-> "ok", b |-> <<>>,
                   offsets |-> <<>>]
    /\ lookup = [done |-> FALSE, key |-> <<>>, direct |-> <<>>,
                 indirect |-> [status |-> "ok", entries |-> <<>>]]

InitContains ==
    /\ cEntry = IndexEntry(0, 0, 0, 0)
    /\ cTime = 0
    /\ cResult = [done |-> FALSE, contains |-> FALSE]

InitDedup ==
    /\ dValues = <<>>
    /\ dResult = [done |-> FALSE, values |-> <<>>]

InitCloud ==
    /\ cw = [Debug |-> FALSE, Metrics |-> <<>>]
    /\ cwResult = NoGather

Init == InitWriter /\ InitIndex /\ InitContains /\ InitDedup /\ InitCloud

\* ------------------------------------------------------------------------
\* The writer and the reader.  One writer receives Write and Close calls in
\* any order (the code has no closed state); NewTSMReader is then called on a
\* bytes.Reader over the bytes the sink holds at that moment.  A call that
\* panics ends the program: nothing is called after it.
\* ------------------------------------------------------------------------

NumOps(kind) == Cardinality({i \in 1..Len(ops) : ops[i].op = kind})

Write(key, values) ==
    /\ reader.status = "none"
    /\ wres.status # "panic"
    /\ NumOps("Write") < MaxWrites
    /\ LET status == tsmWriter_Write_Status(values)
       IN  /\ wres' = [op |-> "Write", key |-> key, values |-> values,
                       status |-> status]
           /\ IF status = "ok"
              THEN /\ writer' = tsmWriter_Write(writer, key, values)
                   /\ ops' = Append(ops, WriteOp(key, values))
              ELSE UNCHANGED <<writer, ops>>
    /\ UNCHANGED <<reader, res>>
    /\ UNCHANGED <<indexVars, containsVars, dedupVars, cloudVars>>

Close ==
    /\ reader.status = "none"
    /\ wres.status # "panic"
    /\ NumOps("Close") < MaxCloses
    /\ writer' = tsmWriter_Close(writer)
    /\ ops' = Append(ops, CloseOp)
    /\ wres' = [op |-> "Close", key |-> <<>>, values |-> <<>>,
                status |-> "ok"]
    /\ UNCHANGED <<reader, res>>
    /\ UNCHANGED <<indexVars, containsVars, dedupVars, cloudVars>>

Open ==
    /\ reader.status = "none"
    /\ wres.status # "panic"
    /\ reader' = NewTSMReader(writer.w)
    /\ UNCHANGED <<writer, ops, wres, res>>
    /\ UNCHANGED <<indexVars, containsVars, dedupVars, cloudVars>>

Read(key, timestamp) ==
    /\ reader.status = "ok"
    /\ LET r == tsmReader_Read(reader, key, timestamp)
       IN  res' = [op |-> "Read", key |-> key, timestamp |-> timestamp,
                   status |-> r.status, values |-> r.values]
    /\ UNCHANGED <<writer, ops, wres, reader>>
    /\ UNCHANGED <<indexVars, containsVars, dedupVars, cloudVars>>

ReadAll(key) ==
    /\ reader.status = "ok"
    /\ LET r == tsmReader_ReadAll(reader, key)
       IN  res' = [op |-> "ReadAll", key |-> key, timestamp |-> 0,
                   status |-> r.status, values |-> r.values]
    /\ UNCHANGED <<writer, ops, wres, reader>>
    /\ UNCHANGED <<indexVars, containsVars, dedupVars, cloudVars>>

Next ==
    \/ \E in \in WriteInputs \cup EmptyInputs : Write(in[1], in[2])
    \/ Close
    \/ Open
    \/ \E key \in ReadKeys, timestamp \in ReadTimes : Read(key, timestamp)
    \/ \E key \in ReadKeys : ReadAll(key)

Spec == Init /\ [][Next]_vars

\* ------------------------------------------------------------------------
\* The writer on a sink that can fail: the io.Writer accepts the bytes of a
\* block or takes some of them and returns an error.
\* ------------------------------------------------------------------------

RejectedOp(key, values) ==
    [op |-> "WriteRejected", key |-> key, values |-> values]

WriteRejected(key, values, taken) ==
    /\ reader.status = "none"
    /\ wres.status # "panic"
    /\ NumOps("WriteRejected") < MaxRejects
    /\ writer' = tsmWriter_Write_Rejected(writer, key, values, taken)
    /\ ops' = Append(ops, RejectedOp(key, values))
    /\ wres' = [op |-> "Write", key |-> key, values |-> values,
                status |-> "error"]
    /\ UNCHANGED <<reader, res>>
    /\ UNCHANGED <<indexVars, containsVars, dedupVars, cloudVars>>

NextSink ==
    \/ \E in \in SinkInputs : Write(in[1], in[2])
    \/ \E in \in SinkInputs, taken \in RejectAfter :
          WriteRejected(in[1], in[2], taken)
    \/ Close

SpecSink == Init /\ [][NextSink]_vars

\* ------------------------------------------------------------------------
\* The reader on a damaged file.  A writer receives Write calls and one
\* Close; NewTSMReader is then called on a bytes.Reader over the bytes of the
\* sink as they are after one damage: a byte changed, the end cut off.
\* ------------------------------------------------------------------------

\* The bytes of file after damage d.
Damaged(file, d) ==
    IF d.kind = "set" /\ d.n < Len(file)
    THEN [file EXCEPT ![d.n + 1] = (@ + 1) % 256]
    ELSE IF d.kind = "footer" /\ Len(file) > 0
    THEN [file EXCEPT ![Len(file)] = 255]
    ELSE IF d.kind = "cut" THEN SubSeq(file, 1, Min2(d.n, Len(file)))
    ELSE IF d.kind = "chop" THEN SubSeq(file, 1, Max2(Len(file) - d.n, 0))
    ELSE file

OpenDamaged(d) ==
    /\ reader.status = "none"
    /\ wres.op = "Close"
    /\ NumOps("Close") = 1
    /\ reader' = NewTSMReader(Damaged(writer.w, d))
    /\ UNCHANGED <<writer, ops, wres, res>>
    /\ UNCHANGED <<indexVars, containsVars, dedupVars, cloudVars>>

NextDamaged ==
    \/ \E in \in WriteInputs : Write(in[1], in[2])
    \/ Close
    \/ \E d \in DamageInputs : OpenDamaged(d)
    \/ \E key \in ReadKeys, timestamp \in ReadTimes : Read(key, timestamp)
    \/ \E key \in ReadKeys : ReadAll(key)

SpecDamaged == Init /\ [][NextDamaged]_vars

\* ------------------------------------------------------------------------
\* The stand-alone index: a direct index receives Add calls and is
\* marshalled; the bytes are unmarshalled into a fresh direct index and into
\* a fresh indirect index, and Entries is called on both.
\* ------------------------------------------------------------------------

Add(key, e) ==
    /\ ~marshalled.done
    /\ Len(adds) < MaxAdds
    /\ dIndex' = directIndex_Add(dIndex, key, e.MinTime, e.MaxTime, e.Offset,
                                 e.Size)
    /\ adds' = Append(adds, [key |-> key, entry |-> e])
    /\ UNCHANGED <<marshalled, decoded, indirect, lookup>>
    /\ UNCHANGED <<writerVars, containsVars, dedupVars, cloudVars>>

Marshal ==
    /\ ~marshalled.done
    /\ LET m == directIndex_MarshalBinary(dIndex)
       IN  /\ marshalled' = [done |-> TRUE, b |-> m.b, before |-> dIndex]
           /\ dIndex' = m.blocks
    /\ UNCHANGED <<adds, decoded, indirect, lookup>>
    /\ UNCHANGED <<writerVars, containsVars, dedupVars, cloudVars>>

UnmarshalDirect ==
    /\ marshalled.done
    /\ ~decoded.done
    /\ LET u == directIndex_UnmarshalBinary(NewDirectIndex, marshalled.b)
       IN  decoded' = [done |-> TRUE, status |-> u.status,
                       blocks |-> u.blocks]
    /\ UNCHANGED <<dIndex, adds, marshalled, indirect, lookup>>
    /\ UNCHANGED <<writerVars, containsVars, dedupVars, cloudVars>>

UnmarshalIndirect ==
    /\ marshalled.done
    /\ ~indirect.done
    /\ LET u == indirectIndex_UnmarshalBinary(marshalled.b)
       IN  indirect' = [done |-> TRUE, status |-> u.status, b |-> u.b,
                        offsets |-> u.offsets]
    /\ UNCHANGED <<dIndex, adds, marshalled, decoded, lookup>>
    /\ UNCHANGED <<writerVars, containsVars, dedupVars, cloudVars>>

Lookup(key) ==
    /\ decoded.done /\ decoded.status = "ok"
    /\ indirect.done /\ indirect.status = "ok"
    /\ lookup' = [done |-> TRUE, key |-> key,
                  direct |-> directIndex_Entries(decoded.blocks, key),
                  indirect |-> indirectIndex_Entries(indirect, key)]
    /\ UNCHANGED <<dIndex, adds, marshalled, decoded, indirect>>
    /\ UNCHANGED <<writerVars, containsVars, dedupVars, cloudVars>>

NextIndex ==
    \/ \E key \in AddKeys, e \in AddEntries : Add(key, e)
    \/ Marshal
    \/ UnmarshalDirect
    \/ UnmarshalIndirect
    \/ \E key \in LookupKeys : Lookup(key)

SpecIndex == Init /\ [][NextIndex]_vars

\* ------------------------------------------------------------------------
\* directIndex.UnmarshalBinary on bytes that are not a serialized index: the
\* bytes MarshalBinary returned are mangled once before a fresh direct index
\* unmarshals them from a slice without spare capacity.
\* ------------------------------------------------------------------------

\* b without its last chop bytes, between head and tail.
Mangled(b, m) ==
    (m.head \o SubSeq(b, 1, Max2(Len(b) - m.chop, 0))) \o m.tail

Mangle ==
    /\ marshalled.done
    /\ ~decoded.done
    /\ marshalled.b = directIndex_MarshalBinary(marshalled.before).b
    /\ \E m \in MangleInputs :
          marshalled' = [marshalled EXCEPT !.b = Mangled(@, m)]
    /\ UNCHANGED <<dIndex, adds, decoded, indirect, lookup>>
    /\ UNCHANGED <<writerVars, containsVars, dedupVars, cloudVars>>

NextMalformed ==
    \/ \E key \in AddKeys, e \in AddEntries : Add(key, e)
    \/ Marshal
    \/ Mangle
    \/ UnmarshalDirect

SpecMalformed == Init /\ [][NextMalformed]_vars

\* ------------------------------------------------------------------------
\* directIndex.MarshalBinary on an index that holds one entry under "c" and
\* up to MaxSortLen entries with MinTime 0 or 1 under "cpu", under each
\* build of sort.Sort.  The Offset of an entry tells when it was added.
\* ------------------------------------------------------------------------

\* The Add calls that give "cpu" one entry for each of the times.
SortAdds(times) ==
    <<[key |-> keyC, entry |-> IndexEntry(0, 0, 5, 23)]>> \o
    [i \in 1..Len(times) |->
        [key |-> keyCpu,
         entry |-> IndexEntry(times[i], times[i], 5 + (23 * i), 23)]]

RECURSIVE IndexAfter(_)
IndexAfter(calls) ==
    IF Len(calls) = 0 THEN NewDirectIndex
    ELSE LET last == calls[Len(calls)]
         IN  directIndex_Add(IndexAfter(SubSeq(calls, 1, Len(calls) - 1)),
                             last.key, last.entry.MinTime, last.entry.MaxTime,
                             last.entry.Offset, last.entry.Size)

InitSort ==
    /\ InitWriter
    /\ InitContains
    /\ InitDedup
    /\ InitCloud
    /\ \E n \in 1..MaxSortLen : \E times \in [1..n -> {0, 1}] :
          /\ adds = SortAdds(times)
          /\ dIndex = IndexAfter(SortAdds(times))
    /\ marshalled = [done |-> FALSE, b |-> <<>>, before |-> NewDirectIndex]
    /\ decoded = [done |-> FALSE, status |-> "ok", blocks |-> NewDirectIndex]
    /\ indirect = [done |-> FALSE, status |-> "ok", b |-> <<>>,
                   offsets |-> <<>>]
    /\ lookup = [done |-> FALSE, key |-> <<>>, direct |-> <<>>,
                 indirect |-> [status |-> "ok", entries |-> <<>>]]

MarshalOn(build) ==
    /\ ~marshalled.done
    /\ LET m == directIndex_MarshalBinary_On(dIndex, build)
       IN  /\ marshalled' = [done |-> TRUE, b |-> m.b, before |-> dIndex]
           /\ dIndex' = m.blocks
    /\ UNCHANGED <<adds, decoded, indirect, lookup>>
    /\ UNCHANGED <<writerVars, containsVars, dedupVars, cloudVars>>

NextSort == \E build \in SortBuilds : MarshalOn(build)

SpecSort == InitSort /\ [][NextSort]_vars

\* ------------------------------------------------------------------------
\* Values.Deduplicate on the slices of up to MaxDedupLen values with the
\* timestamps 0 .. 2 and the values 1 and 2.
\* ------------------------------------------------------------------------

InitCallDeduplicate ==
    /\ InitWriter
    /\ InitIndex
    /\ InitContains
    /\ InitCloud
    /\ \E n \in 0..MaxDedupLen :
          dValues \in [1..n -> {Val(t, v) : t \in 0..2, v \in 1..2}]
    /\ dResult = [done |-> FALSE, values |-> <<>>]

CallDeduplicate ==
    /\ ~dResult.done
    /\ \E order \in MapOrders(dedupMap(dValues, Len(dValues))) :
          dResult' = [done |-> TRUE, values |-> Deduplicate(dValues, order)]
    /\ UNCHANGED <<dValues, cloudVars>>
    /\ UNCHANGED <<writerVars, indexVars, containsVars>>

NextDedup == CallDeduplicate

SpecDedup == InitCallDeduplicate /\ [][NextDedup]_vars

\* ------------------------------------------------------------------------
\* CloudWatch.Gather on a plugin configured with up to MaxMetrics Metrics;
\* the service answers each request with one of Replies.
\* ------------------------------------------------------------------------

\* The number of requests Gather makes when none fails.
RECURSIVE NumNames(_, _)
NumNames(metrics, i) ==
    IF i > Len(metrics) THEN 0
    ELSE Len(metrics[i].MetricNames) + NumNames(metrics, i + 1)

InitCallGather ==
    /\ InitWriter
    /\ InitIndex
    /\ InitContains
    /\ InitDedup
    /\ \E n \in 0..MaxMetrics, debug \in BOOLEAN :
          \E metrics \in [1..n -> MetricInputs] :
             cw = [Debug |-> debug, Metrics |-> metrics]
    /\ cwResult = NoGather

CallGather ==
    /\ ~cwResult.done
    /\ \E replies \in [1..NumNames(cw.Metrics, 1) -> Replies] :
          cwResult' = CloudWatch_Gather(cw, replies)
    /\ UNCHANGED <<cw, dedupVars>>
    /\ UNCHANGED <<writerVars, indexVars, containsVars>>

NextCloud == CallGather

SpecCloud == InitCallGather /\ [][NextCloud]_vars

\* ------------------------------------------------------------------------
\* IndexEntry.Contains on the entries with MinTime <= MaxTime and the
\* timestamps of -MaxT .. MaxT.
\* ------------------------------------------------------------------------

InitCallContains ==
    /\ InitWriter
    /\ InitIndex
    /\ InitDedup
    /\ InitCloud
    /\ \E minTime \in (-MaxT)..MaxT, maxTime \in (-MaxT)..MaxT :
          /\ minTime <= maxTime
          /\ cEntry = IndexEntry(minTime, maxTime, 5, 23)
    /\ cTime \in (-MaxT)..MaxT
    /\ cResult = [done |-> FALSE, contains |-> FALSE]

CallContains ==
    /\ ~cResult.done
    /\ cResult' = [done |-> TRUE, contains |-> Contains(cEntry, cTime)]
    /\ UNCHANGED <<cEntry, cTime>>
    /\ UNCHANGED <<writerVars, indexVars, dedupVars, cloudVars>>

NextContains == CallContains

SpecContains == InitCallContains /\ [][NextContains]_vars

\* ------------------------------------------------------------------------
\* What the claims speak of
\* ------------------------------------------------------------------------

\* The calls on the writer were Write calls followed by one Close.
WritesThenClose ==
    /\ Len(ops) >= 1
    /\ ops[Len(ops)] = CloseOp
    /\ \A i \in 1..(Len(ops) - 1) : ops[i].op = "Write"

\* The Write calls among a sequence of calls, in order.
WritesOf(calls) == SelectSeq(calls, LAMBDA c : c.op = "Write")

\* The value lists written under key, in write order.
BlocksOf(calls, key) ==
    LET w == SelectSeq(calls, LAMBDA c : c.op = "Write" /\ c.key = key)
    IN  [i \in 1..Len(w) |-> w[i].values]

RECURSIVE Concat(_)
Concat(lists) ==
    IF Len(lists) = 0 THEN <<>> ELSE Head(lists) \o Concat(Tail(lists))

FirstTime(values) == values[1].time

LastTime(values) == values[Len(values)].time

\* The first timestamps of the blocks are strictly ascending.
AscendingFirst(blocks) ==
    \A i \in 1..(Len(blocks) - 1) :
        FirstTime(blocks[i]) < FirstTime(blocks[i + 1])

\* The time ranges [first, last] of the blocks are pairwise disjoint.
DisjointRanges(blocks) ==
    \A i \in 1..Len(blocks) : \A j \in 1..Len(blocks) :
        i # j => \/ LastTime(blocks[i]) < FirstTime(blocks[j])
                 \/ LastTime(blocks[j]) < FirstTime(blocks[i])

\* The writer after a sequence of Write calls, and the file after Close.
RECURSIVE WriterAfter(_)
WriterAfter(writes) ==
    IF Len(writes) = 0 THEN NewTSMWriter
    ELSE LET last == writes[Len(writes)]
         IN  tsmWriter_Write(WriterAfter(SubSeq(writes, 1, Len(writes) - 1)),
                             last.key, last.values)

FileOf(writes) == tsmWriter_Close(WriterAfter(writes)).w

\* The value of the footer of a file and the bytes between the position it
\* names and the footer.
FooterOf(file) == btou64(SubSeq(file, Len(file) - 7, Len(file)))

IndexSectionOf(file) == Slice(file, FooterOf(file), Len(file) - 8)

\* The keys of the key records of an index section, in the order of the
\* records.
KeysInOrder(section) ==
    LET d == indirectIndex_UnmarshalBinary(section)
    IN  [i \in 1..Len(d.offsets) |-> probeKey(d, i - 1)]

\* ------------------------------------------------------------------------
\* C1
\* ------------------------------------------------------------------------

\* C1 as stated: after Write calls and a Close, ReadAll(key) on a reader
\* opened on the bytes returns the concatenation, in write order, of the value
\* lists written under key, whatever the order of their first timestamps.
C1_AsStated ==
    (WritesThenClose /\ res.op = "ReadAll")
        => /\ res.status = "ok"
           /\ res.values = Concat(BlocksOf(ops, res.key))

\* C1 amended: after Write calls and a Close the reader opens without error,
\* and ReadAll(key) returns the concatenation, in write order, of the value
\* lists written under key provided the blocks of that key were written with
\* strictly ascending first timestamps.
C1_ReadAllRoundTrip ==
    /\ (WritesThenClose /\ reader.status # "none") => reader.status = "ok"
    /\ (WritesThenClose /\ res.op = "ReadAll"
        /\ AscendingFirst(BlocksOf(ops, res.key)))
          => /\ res.status = "ok"
             /\ res.values = Concat(BlocksOf(ops, res.key))

\* Two blocks of one key around a block of another key were read back.
C1_Witness ==
    /\ WritesThenClose
    /\ res.op = "ReadAll"
    /\ Len(ops) = 4
    /\ BlocksOf(ops, res.key) = <<blockA, blockB>>
    /\ ops[2].key # res.key
    /\ res.values = blockA \o blockB

\* ------------------------------------------------------------------------
\* C2
\* ------------------------------------------------------------------------

\* The blocks written under the key of the last Read whose first or last
\* timestamp is the timestamp read.
BlocksAtReadTime ==
    {i \in 1..Len(ops) :
        /\ ops[i].op = "Write"
        /\ ops[i].key = res.key
        /\ res.timestamp \in {FirstTime(ops[i].values),
                              LastTime(ops[i].values)}}

\* C2 as stated: Read(key, t) with t the first or the last timestamp of a
\* block written under key returns exactly that block's values, also when the
\* blocks of the key overlap in time.
C2_AsStated ==
    (WritesThenClose /\ res.op = "Read")
        => \A i \in BlocksAtReadTime :
              res.status = "ok" /\ res.values = ops[i].values

\* C2 amended: Read(key, t) with t the first or the last timestamp of a block
\* written under key returns exactly that block's values provided the time
\* ranges of the blocks written under key are pairwise disjoint, in whatever
\* order they were written.
C2_ReadBlockAtEnds ==
    (WritesThenClose /\ res.op = "Read"
     /\ DisjointRanges(BlocksOf(ops, res.key)))
        => \A i \in BlocksAtReadTime :
              res.status = "ok" /\ res.values = ops[i].values

\* The later of two blocks written out of order was read at its last
\* timestamp.
C2_Witness ==
    /\ WritesThenClose
    /\ res.op = "Read"
    /\ BlocksOf(ops, res.key) = <<blockB, blockA>>
    /\ res.timestamp = 3
    /\ res.values = blockB

\* ------------------------------------------------------------------------
\* C3
\* ------------------------------------------------------------------------

\* C3: the direct index and the indirect index unmarshalled from the bytes
\* of MarshalBinary return the same Entries(k) for every key k, present or
\* absent.
C3_DirectIndirectAgree ==
    lookup.done
        => /\ lookup.indirect.status = "ok"
           /\ lookup.indirect.entries = lookup.direct
           /\ (lookup.key \notin DOMAIN dIndex => lookup.direct = <<>>)

\* Both indexes returned the two entries of a key of an index of three keys.
C3_Witness ==
    /\ lookup.done
    /\ Cardinality(DOMAIN decoded.blocks) = 3
    /\ lookup.key = keyCpu
    /\ Len(lookup.indirect.entries) >= 1

\* ------------------------------------------------------------------------
\* C4
\* ------------------------------------------------------------------------

KeyNeverWritten(key) == \A i \in 1..Len(ops) : ops[i].key # key

\* C4: on a reader opened on a valid file, Read and ReadAll of a key that
\* was never written return an empty list and no error.
C4_AbsentKeyEmpty ==
    (WritesThenClose /\ res.op \in {"Read", "ReadAll"}
     /\ KeyNeverWritten(res.key))
        => res.status = "ok" /\ res.values = <<>>

\* Read was called for a key that was never written, on a file holding
\* blocks of another key.
C4_Witness ==
    /\ WritesThenClose
    /\ Len(ops) >= 3
    /\ res.op = "Read"
    /\ KeyNeverWritten(res.key)
    /\ res.values = <<>>

\* ------------------------------------------------------------------------
\* C5
\* ------------------------------------------------------------------------

\* The reorderings of a sequence of Write calls that keep the relative order
\* of the calls of every single key.
KeyOrderKeeping(writes) ==
    {p \in Permutations(1..Len(writes)) :
        \A i \in 1..Len(writes) : \A j \in 1..Len(writes) :
            (i < j /\ writes[p[i]].key = writes[p[j]].key) => p[i] < p[j]}

Reordered(writes, p) == [i \in 1..Len(writes) |-> writes[p[i]]]

\* C5: the keys readable from the closed file and the result of ReadAll for
\* a key are the same for every reordering of the Write calls that keeps the
\* relative order of the calls of each key.
C5_KeyOrderIndependent ==
    (WritesThenClose /\ res.op = "ReadAll")
        => \A p \in KeyOrderKeeping(WritesOf(ops)) :
              LET other == NewTSMReader(FileOf(Reordered(WritesOf(ops), p)))
                  r == tsmReader_ReadAll(other, res.key)
              IN  /\ other.status = "ok"
                  /\ DOMAIN other.index = DOMAIN reader.index
                  /\ r.status = res.status
                  /\ r.values = res.values

\* ReadAll returned the blocks of a key whose Write calls were interleaved
\* with those of another key.
C5_Witness ==
    /\ WritesThenClose
    /\ res.op = "ReadAll"
    /\ Len(ops) = 4
    /\ ops[1].key # ops[2].key
    /\ ops[3].key = ops[1].key
    /\ res.key = ops[1].key
    /\ Len(res.values) >= 3
    /\ Cardinality(KeyOrderKeeping(WritesOf(ops))) = 3

\* ------------------------------------------------------------------------
\* C6
\* ------------------------------------------------------------------------

cpuThenMem == <<WriteOp(keyCpu, blockZero), WriteOp(keyMem, blockSecond)>>

memThenCpu == <<WriteOp(keyMem, blockSecond), WriteOp(keyCpu, blockZero)>>

\* An entry without its Offset.
WithoutOffset(e) ==
    [MinTime |-> e.MinTime, MaxTime |-> e.MaxTime, Size |-> e.Size]

\* C6 as stated: writing ("mem", [(1s, 2.0)]) and then ("cpu", [(0, 1.0)])
\* gives, after Close, an index section bit-identical to the one of the file
\* written in the order cpu, mem.
C6_AsStated ==
    ops = Append(memThenCpu, CloseOp)
        => IndexSectionOf(writer.w) = IndexSectionOf(FileOf(cpuThenMem))

\* C6 amended: the index section written in the order mem, cpu lists the same
\* keys in the same order (cpu before mem) as the one written in the order
\* cpu, mem, with the same MinTime, MaxTime and Size in every entry; the
\* Offsets differ, each block's Offset being the position it was written at.
C6_SameIndexButOffsets ==
    ops = Append(memThenCpu, CloseOp)
        => LET here == IndexSectionOf(writer.w)
               there == IndexSectionOf(FileOf(cpuThenMem))
               h == directIndex_UnmarshalBinary(NewDirectIndex, here).blocks
               t == directIndex_UnmarshalBinary(NewDirectIndex, there).blocks
           IN  /\ KeysInOrder(here) = <<keyCpu, keyMem>>
               /\ KeysInOrder(there) = <<keyCpu, keyMem>>
               /\ Len(here) = Len(there)
               /\ \A k \in {keyCpu, keyMem} :
                     /\ Len(h[k]) = 1 /\ Len(t[k]) = 1
                     /\ WithoutOffset(h[k][1]) = WithoutOffset(t[k][1])
               /\ h[keyMem][1].Offset = 5
               /\ h[keyCpu][1].Offset = 5 + h[keyMem][1].Size
               /\ t[keyCpu][1].Offset = 5
               /\ t[keyMem][1].Offset = 5 + t[keyCpu][1].Size

\* The two blocks were written in the order mem, cpu and the writer closed.
C6_Witness ==
    /\ ops = Append(memThenCpu, CloseOp)
    /\ Len(IndexSectionOf(writer.w)) = 2 * (2 + 3 + 2 + indexEntrySize)

\* ------------------------------------------------------------------------
\* C7
\* ------------------------------------------------------------------------

\* The entries of every key were added in strictly ascending MinTime.
AscendingAdds(blocks) ==
    \A k \in DOMAIN blocks : \A i \in 1..(Len(blocks[k]) - 1) :
        blocks[k][i].MinTime < blocks[k][i + 1].MinTime

\* C7 as stated: unmarshalling MarshalBinary(I) into a fresh direct index
\* yields the keys of I and, for each key, the entries in the order I held
\* them before encoding.
C7_AsStated ==
    decoded.done
        => decoded.status = "ok" /\ decoded.blocks = marshalled.before

\* C7 amended: unmarshalling MarshalBinary(I) into a fresh direct index
\* yields the keys of I and, for each key, the entries in the order I holds
\* them after MarshalBinary, which sorted them by MinTime; that is the order I
\* held them in before encoding when the entries of every key were added in
\* strictly ascending MinTime.
C7_DecodeEncode ==
    decoded.done
        => /\ decoded.status = "ok"
           /\ decoded.blocks = dIndex
           /\ DOMAIN decoded.blocks = DOMAIN marshalled.before
           /\ (AscendingAdds(marshalled.before)
                 => decoded.blocks = marshalled.before)

\* An index of two keys, one of them with entries added out of order, was
\* marshalled and unmarshalled.
C7_Witness ==
    /\ decoded.done
    /\ Cardinality(DOMAIN decoded.blocks) = 2
    /\ decoded.blocks = dIndex
    /\ dIndex # marshalled.before

\* ------------------------------------------------------------------------
\* C8
\* ------------------------------------------------------------------------

RECURSIVE SumFrames(_)
SumFrames(writes) ==
    IF Len(writes) = 0 THEN 0
    ELSE Len(blockFrame(Head(writes).values)) + SumFrames(Tail(writes))

\* C8: after Write calls and a Close, the last 8 bytes of the file hold 5
\* plus the sum of the on-wire sizes of the blocks written, and that is the
\* offset of the first byte of the serialized index.
C8_FooterIsIndexStart ==
    WritesThenClose
        => LET file == writer.w
               footer == FooterOf(file)
               indexBytes == directIndex_MarshalBinary(writer.index).b
           IN  /\ footer = 5 + SumFrames(WritesOf(ops))
               /\ footer + Len(indexBytes) + 8 = Len(file)
               /\ Slice(file, footer, Len(file) - 8) = indexBytes

\* A file of three blocks was closed.
C8_Witness ==
    /\ WritesThenClose
    /\ Len(ops) = 4
    /\ FooterOf(writer.w) > 5
    /\ Len(writer.w) > FooterOf(writer.w) + 8

\* ------------------------------------------------------------------------
\* C9
\* ------------------------------------------------------------------------

\* C9: a writer closed without any Write has produced exactly 13 bytes: the
\* magic 0x16D116D1, the version 0x01, no index bytes and a footer of 5.
C9_EmptyFile ==
    ops = <<CloseOp>>
        => /\ Len(writer.w) = 13
           /\ writer.w = <<22, 209, 22, 209, 1, 0, 0, 0, 0, 0, 0, 0, 5>>
           /\ FooterOf(writer.w) = 5
           /\ IndexSectionOf(writer.w) = <<>>

\* The writer was closed right after its construction.
C9_Witness == ops = <<CloseOp>> /\ Len(writer.w) > 5

\* ------------------------------------------------------------------------
\* C10
\* ------------------------------------------------------------------------

\* C10: Contains(t) is true if and only if MinTime <= t <= MaxTime.
C10_ContainsInclusive ==
    cResult.done
        => (cResult.contains
              <=> (cEntry.MinTime <= cTime /\ cTime <= cEntry.MaxTime))

\* ------------------------------------------------------------------------
\* C11
\* ------------------------------------------------------------------------

\* The position in ops of the first Close that returned.
FirstClose ==
    CHOOSE i \in 1..Len(ops) :
        /\ ops[i] = CloseOp
        /\ \A j \in 1..(i - 1) : ops[j] # CloseOp

\* C11: once Close has been called the writer is closed: no later Write or
\* Close returns without error, and the sink holds what it held when Close
\* returned, so that its last 8 bytes are the footer Close wrote.
C11_ClosedStaysClosed ==
    NumOps("Close") > 0
        => /\ Len(ops) = FirstClose
           /\ writer.w = FileOf(WritesOf(SubSeq(ops, 1, FirstClose - 1)))

\* ------------------------------------------------------------------------
\* C12
\* ------------------------------------------------------------------------

\* C12: a Write of an empty value list is rejected with the EmptyBlock
\* error: the call does not panic, emits no bytes to the sink and adds no
\* index entry.
C12_EmptyRejected ==
    [][(wres'.op = "Write" /\ wres'.values = <<>>)
          => /\ wres'.status = "EmptyBlock"
             /\ writer' = writer]_vars

\* ------------------------------------------------------------------------
\* C13
\* ------------------------------------------------------------------------

\* The Size bytes at the entry's Offset lie in src and the first four of
\* them are the CRC-32 of the others.
ChecksumOK(src, entry) ==
    /\ entry.Size >= 4
    /\ SliceOK(src, entry.Offset, entry.Offset + entry.Size)
    /\ Slice(src, entry.Offset, entry.Offset + 4)
         = ChecksumIEEE(Slice(src, entry.Offset + 4,
                              entry.Offset + entry.Size))

\* C13: Read and ReadAll verify the leading CRC of each block they fetch
\* against the payload after it; when the two do not match, the call reports
\* ChecksumMismatch and returns no decoded values.
C13_ChecksumVerified ==
    /\ res.op = "Read"
          => LET block == directIndex_Entry(reader.index, res.key,
                                            res.timestamp)
             IN  (block # NilEntry /\ ~ChecksumOK(reader.src, block))
                    => res.status = "ChecksumMismatch"
    /\ res.op = "ReadAll"
          => LET blocks == directIndex_Entries(reader.index, res.key)
             IN  (\E i \in 1..Len(blocks) : ~ChecksumOK(reader.src, blocks[i]))
                    => res.status = "ChecksumMismatch"

\* ------------------------------------------------------------------------
\* C14
\* ------------------------------------------------------------------------

\* C14: NewTSMReader on a file whose first 4 bytes are not the magic number
\* fails with BadMagic, and on a file with the magic number and another
\* version byte with UnsupportedVersion; no reader is returned.
C14_BadHeaderRejected ==
    (reader.status # "none" /\ Len(reader.src) >= 5)
        => /\ SubSeq(reader.src, 1, 4) # u32tob(MagicNumber)
                 => reader.status = "BadMagic"
           /\ (/\ SubSeq(reader.src, 1, 4) = u32tob(MagicNumber)
               /\ reader.src[5] # Version)
                 => reader.status = "UnsupportedVersion"

\* ------------------------------------------------------------------------
\* C15
\* ------------------------------------------------------------------------

\* C15: NewTSMReader on a file shorter than 13 bytes, or whose footer names
\* a position beyond the place of the footer, fails with an error value: it
\* neither panics nor returns a reader.
C15_TruncatedRejected ==
    (/\ reader.status # "none"
     /\ \/ Len(reader.src) < 13
        \/ FooterOf(reader.src) > Len(reader.src) - 8)
        => reader.status = "error"

\* ------------------------------------------------------------------------
\* C16
\* ------------------------------------------------------------------------

\* C16: in a file produced by Write calls and a Close, every entry of the
\* index has 5 <= Offset and Offset + Size <= the position in the footer,
\* and the byte ranges [Offset, Offset + Size) of two entries do not overlap.
C16_EntriesInBlocks ==
    WritesThenClose
        => LET file == writer.w
               indexStart == FooterOf(file)
               u == directIndex_UnmarshalBinary(NewDirectIndex,
                                                IndexSectionOf(file))
               placed == UNION {{[key |-> k, i |-> i, e |-> u.blocks[k][i]] :
                                   i \in 1..Len(u.blocks[k])} :
                                k \in DOMAIN u.blocks}
           IN  /\ u.status = "ok"
               /\ Cardinality(placed) = Len(WritesOf(ops))
               /\ \A p \in placed :
                     /\ 5 <= p.e.Offset
                     /\ p.e.Size > 0
                     /\ p.e.Offset + p.e.Size <= indexStart
               /\ \A p \in placed : \A q \in placed :
                     p # q => \/ p.e.Offset + p.e.Size <= q.e.Offset
                              \/ q.e.Offset + q.e.Size <= p.e.Offset

\* A file of three blocks under two keys was closed.
C16_Witness ==
    /\ WritesThenClose
    /\ Len(ops) = 4
    /\ Cardinality(DOMAIN writer.index) = 2
    /\ \E k \in DOMAIN writer.index : Len(writer.index[k]) = 2

\* ------------------------------------------------------------------------
\* C17
\* ------------------------------------------------------------------------

\* The place of the entry with the given Offset in a list of entries.
PlaceOf(entries, offset) ==
    CHOOSE i \in 1..Len(entries) : entries[i].Offset = offset

\* C17: the bytes MarshalBinary returns list each key of the index once, in
\* strictly ascending byte order, and under each key its entries in ascending
\* MinTime, entries of equal MinTime in the order in which they were added.
C17_SortedStable ==
    marshalled.done
        => LET keys == KeysInOrder(marshalled.b)
               u == directIndex_UnmarshalBinary(NewDirectIndex, marshalled.b)
               before == marshalled.before
           IN  /\ u.status = "ok"
               /\ {keys[i] : i \in 1..Len(keys)} = DOMAIN before
               /\ \A i \in 1..(Len(keys) - 1) : KeyLess(keys[i], keys[i + 1])
               /\ \A k \in DOMAIN u.blocks :
                     LET e == u.blocks[k]
                     IN  \A i \in 1..Len(e) : \A j \in (i + 1)..Len(e) :
                            /\ e[i].MinTime <= e[j].MinTime
                            /\ e[i].MinTime = e[j].MinTime
                                  => PlaceOf(before[k], e[i].Offset)
                                        < PlaceOf(before[k], e[j].Offset)

\* ------------------------------------------------------------------------
\* C18
\* ------------------------------------------------------------------------

\* The length of the buffer of ReadAll when it fetches block i: 16 KiB or
\* the largest Size among the blocks up to i.
RECURSIVE ReadAllBufLen(_, _)
ReadAllBufLen(blocks, i) ==
    IF i = 0 THEN readBufSize
    ELSE Max2(ReadAllBufLen(blocks, i - 1), blocks[i].Size)

\* The Size - 4 bytes after the CRC of the block the entry names.
PayloadOf(src, entry) ==
    Slice(src, entry.Offset + 4, entry.Offset + entry.Size)

\* C18: Read and ReadAll hand to the block decoder exactly the payload of the
\* block they fetch, the Size - 4 bytes after its CRC, and no byte of a later
\* block, of the index or of the footer.
C18_ExactBlockRead ==
    /\ res.op = "Read"
          => LET block == directIndex_Entry(reader.index, res.key,
                                            res.timestamp)
             IN  block # NilEntry
                    => decoderInput(reader.src, block,
                                    Max2(readBufSize, block.Size))
                          = PayloadOf(reader.src, block)
    /\ res.op = "ReadAll"
          => LET blocks == directIndex_Entries(reader.index, res.key)
             IN  \A i \in 1..Len(blocks) :
                    decoderInput(reader.src, blocks[i],
                                 ReadAllBufLen(blocks, i))
                       = PayloadOf(reader.src, blocks[i])

\* ------------------------------------------------------------------------
\* C19
\* ------------------------------------------------------------------------

\* The keys the writer can be given.
WriteKeys == {in[1] : in \in WriteInputs}

\* C19: every Write that returns adds one entry under its key and none
\* under another key: for every key, the index of the writer holds as many
\* entries as Write calls were made with that key, the i-th of them (in the
\* order of their Offsets) with the first and the last timestamp of the i-th
\* block written under the key; nothing is merged and nothing is dropped.
C19_OneEntryPerWrite ==
    /\ DOMAIN writer.index = {k \in WriteKeys : Len(BlocksOf(ops, k)) > 0}
    /\ \A k \in DOMAIN writer.index :
          LET entries == writer.index[k]
              blocks == BlocksOf(ops, k)
          IN  /\ Len(entries) = Len(blocks)
              /\ \A i \in 1..Len(blocks) :
                    \E j \in 1..Len(entries) :
                       /\ Cardinality({m \in 1..Len(entries) :
                             entries[m].Offset < entries[j].Offset}) = i - 1
                       /\ entries[j].MinTime = FirstTime(blocks[i])
                       /\ entries[j].MaxTime = LastTime(blocks[i])

\* The same block was written twice under one key and a block under another
\* key.
C19_Witness ==
    /\ NumOps("Write") = 3
    /\ Cardinality(DOMAIN writer.index) = 2
    /\ \E k \in DOMAIN writer.index :
          /\ Len(writer.index[k]) = 2
          /\ BlocksOf(ops, k)[1] = BlocksOf(ops, k)[2]

\* ------------------------------------------------------------------------
\* C20
\* ------------------------------------------------------------------------

\* The bytes of b from pos on are complete key records, each with a key of
\* at least one byte, and nothing else.
RECURSIVE WellFormedFrom(_, _)
WellFormedFrom(b, pos) ==
    IF pos = Len(b) THEN TRUE
    ELSE IF pos + 2 > Len(b) THEN FALSE
    ELSE LET keyLen == btou16(Slice(b, pos, pos + 2))
             at == pos + 2 + keyLen
         IN  IF keyLen = 0 \/ at + 2 > Len(b) THEN FALSE
             ELSE LET count == btou16(Slice(b, at, at + 2))
                      next == at + 2 + (count * indexEntrySize)
                  IN  IF next > Len(b) THEN FALSE
                      ELSE WellFormedFrom(b, next)

\* C20: directIndex.UnmarshalBinary returns the MalformedIndex error, and
\* neither succeeds nor panics, on bytes that hold residual or truncated
\* bytes after the last complete key record or a record with keyLen = 0.
C20_MalformedRejected ==
    (decoded.done /\ ~WellFormedFrom(marshalled.b, 0))
        => decoded.status = "MalformedIndex"

\* ------------------------------------------------------------------------
\* C21
\* ------------------------------------------------------------------------

\* The last place in a at which the timestamp t stands.
LastPlaceOf(a, t) ==
    CHOOSE i \in 1..Len(a) :
        /\ a[i].time = t
        /\ \A j \in (i + 1)..Len(a) : a[j].time # t

\* C21: Deduplicate returns one value for each distinct timestamp of the
\* slice, in strictly ascending order of the timestamps, and the value kept
\* for a timestamp is the last one in the slice that bears it.
C21_DeduplicateKeepsLast ==
    dResult.done
        => LET r == dResult.values
               times == {dValues[i].time : i \in 1..Len(dValues)}
           IN  /\ Len(r) = Cardinality(times)
               /\ {r[i].time : i \in 1..Len(r)} = times
               /\ \A i \in 1..(Len(r) - 1) : r[i].time < r[i + 1].time
               /\ \A i \in 1..Len(r) :
                     r[i] = dValues[LastPlaceOf(dValues, r[i].time)]

\* Deduplicate was called on a slice that was not in ascending order and held
\* two different values for one timestamp.
C21_Witness ==
    /\ dResult.done
    /\ Len(dResult.values) = 2
    /\ Len(dValues) = 3
    /\ dValues[1].time > dValues[2].time
    /\ \E i \in 1..3 : \E j \in 1..3 :
          /\ i < j
          /\ dValues[i].time = dValues[j].time
          /\ dValues[i].value # dValues[j].value

\* ------------------------------------------------------------------------
\* C22
\* ------------------------------------------------------------------------

\* Where the block written last ends: the largest Offset + Size among the
\* entries of the index, 5 when it holds none.
EndOfLastBlock(blocks) ==
    LET ends == UNION {{blocks[k][i].Offset + blocks[k][i].Size :
                          i \in 1..Len(blocks[k])} : k \in DOMAIN blocks}
    IN  IF ends = {} THEN 5
        ELSE CHOOSE e \in ends : \A o \in ends : o <= e

\* C22: a Write that returns without error appends to the entries of its
\* key one entry with MinTime the first and MaxTime the last timestamp of
\* the values, Offset the position n before the call and Size 4 plus the
\* length of the encoded block, leaves the other keys alone and advances n
\* by that Size; the position before the call is the end of the block written
\* just before, 5 for the first block.
C22_WriteRecordsEntry ==
    [][(wres'.op = "Write" /\ wres'.status = "ok" /\ ops' # ops)
          => LET key == wres'.key
                 values == wres'.values
                 size == 4 + Len(Encode(values).b)
             IN  /\ writer'.index[key]
                       = Append(directIndex_Entries(writer.index, key),
                                IndexEntry(values[1].time,
                                           values[Len(values)].time,
                                           writer.n, size))
                 /\ DOMAIN writer'.index = (DOMAIN writer.index) \cup {key}
                 /\ \A k \in (DOMAIN writer.index) \ {key} :
                       writer'.index[k] = writer.index[k]
                 /\ writer'.n = writer.n + size
                 /\ Len(writer'.w) = Len(writer.w) + size
                 /\ writer.n = EndOfLastBlock(writer.index)]_vars

\* A third block, of two values, was written.
C22_Witness ==
    /\ wres.op = "Write"
    /\ wres.status = "ok"
    /\ NumOps("Write") = 3
    /\ Len(wres.values) = 2
    /\ writer.n = EndOfLastBlock(writer.index)
    /\ writer.n > 5

\* ------------------------------------------------------------------------
\* C23
\* ------------------------------------------------------------------------

\* C23: over an index whose key records stand in ascending order, the binary
\* search of indirectIndex.Entries ends at the smallest position of the
\* offsets whose key is the target or greater; Entries returns the entries of
\* that record when its key is the target, and no entries when it is not or
\* when every key is smaller than the target.
C23_SearchSmallestNotLess ==
    lookup.done
        => LET d == indirect
               n == Len(d.offsets)
               key == lookup.key
               i == sortSearch(d, key, 0, n)
           IN  /\ \A p \in 0..(n - 2) : KeyLess(probeKey(d, p), probeKey(d, p + 1))
               /\ i \in 0..n
               /\ \A p \in 0..(i - 1) : KeyLess(probeKey(d, p), key)
               /\ i < n => ~KeyLess(probeKey(d, i), key)
               /\ lookup.indirect.status = "ok"
               /\ lookup.indirect.entries
                     = IF i < n /\ probeKey(d, i) = key
                       THEN readEntries(Slice(d.b, d.offsets[i + 1] + 2 + Len(key),
                                              Len(d.b))).entries
                       ELSE <<>>
               /\ (i < n /\ probeKey(d, i) = key)
                     => lookup.indirect.entries = dIndex[key]

\* Entries was asked for "d" on an index that holds "c", "cpu" and "mem":
\* the search ends at "mem" and no entries are returned.
C23_Witness ==
    /\ lookup.done
    /\ lookup.key = keyD
    /\ DOMAIN dIndex = {keyC, keyCpu, keyMem}
    /\ sortSearch(indirect, keyD, 0, Len(indirect.offsets)) = 2
    /\ lookup.indirect.entries = <<>>

\* ------------------------------------------------------------------------
\* C24
\* ------------------------------------------------------------------------

\* C24: a Write whose sink returns an error returns that error and leaves the
\* index and the position n of the writer as they were; the index a later
\* Close writes is the index of the blocks whose Write returned nil, followed
\* by their end as the footer.
C24_RejectedWriteLeavesState ==
    /\ [][(Len(ops') = Len(ops) + 1 /\ ops'[Len(ops')].op = "WriteRejected")
             => /\ wres'.op = "Write"
                /\ wres'.status = "error"
                /\ writer'.index = writer.index
                /\ writer'.n = writer.n]_vars
    /\ [](((Len(ops) > 0) /\ (ops[Len(ops)] = CloseOp))
            => LET good == WriterAfter(WritesOf(ops))
                   tail == directIndex_MarshalBinary(good.index).b
                              \o u64tob(good.n)
               IN  /\ writer.n = good.n
                   /\ Len(writer.w) >= Len(tail)
                   /\ SubSeq(writer.w, Len(writer.w) - Len(tail) + 1,
                             Len(writer.w)) = tail)

\* The sink took four bytes of a block and rejected it, another block was
\* written after that and the writer was closed.
C24_Witness ==
    /\ Len(ops) = 3
    /\ ops[1].op = "WriteRejected"
    /\ ops[2].op = "Write"
    /\ ops[3] = CloseOp
    /\ Len(writer.w) > writer.n + 8
    /\ Cardinality(DOMAIN writer.index) = 1

\* ------------------------------------------------------------------------
\* C25
\* ------------------------------------------------------------------------

\* How many times entry e occurs in the list entries.
CountOf(entries, e) ==
    Cardinality({i \in 1..Len(entries) : entries[i] = e})

\* The same entries, each as many times, in any order.
SameMultiset(a, b) ==
    /\ Len(a) = Len(b)
    /\ \A i \in 1..Len(a) : CountOf(a, a[i]) = CountOf(b, a[i])

\* C25: MarshalBinary is not read-only.  After it returns, Entries(key) on
\* the marshalled index yields the entries of the key in ascending MinTime,
\* whatever the order they were added in; the index has the keys it had
\* before the call and, for each key, the same multiset of entries.
C25_MarshalSortsInPlace ==
    marshalled.done
        => /\ DOMAIN dIndex = DOMAIN marshalled.before
           /\ \A k \in DOMAIN marshalled.before :
                 LET after == directIndex_Entries(dIndex, k)
                 IN  /\ \A i \in 1..(Len(after) - 1) :
                           after[i].MinTime <= after[i + 1].MinTime
                     /\ SameMultiset(after, marshalled.before[k])
                     /\ (\E i \in 1..(Len(marshalled.before[k]) - 1) :
                            marshalled.before[k][i].MinTime
                                > marshalled.before[k][i + 1].MinTime)
                           => after # marshalled.before[k]

\* An index of two keys was marshalled; one key had two entries added out
\* of MinTime order, and Entries no longer yields them in insertion order.
C25_Witness ==
    /\ marshalled.done
    /\ Cardinality(DOMAIN marshalled.before) = 2
    /\ \E k \in DOMAIN marshalled.before :
          /\ Len(marshalled.before[k]) = 2
          /\ marshalled.before[k][1].MinTime > marshalled.before[k][2].MinTime
          /\ directIndex_Entries(dIndex, k) # marshalled.before[k]

\* ------------------------------------------------------------------------
\* C26
\* ------------------------------------------------------------------------

\* The points one request adds for Metric m: one for each datapoint of its
\* reply up to the first that has no Average.
PointsOf(m, r) ==
    IF r.reply.err THEN <<>>
    ELSE LET dps == r.reply.Datapoints
             n == CHOOSE k \in 0..Len(dps) :
                     /\ \A i \in 1..k : dps[i].Average # <<>>
                     /\ (k = Len(dps) \/ dps[k + 1].Average = <<>>)
         IN  [i \in 1..n |-> [measurement |-> r.params.MetricName,
                              value |-> dps[i].Average[1],
                              tags |-> m.Dimensions,
                              t |-> dps[i].Timestamp[1]]]

RECURSIVE PointsOfRequests(_, _, _)
PointsOfRequests(m, requests, j) ==
    IF j > Len(requests) THEN <<>>
    ELSE PointsOf(m, requests[j]) \o PointsOfRequests(m, requests, j + 1)

RECURSIVE PointsOfPushes(_, _, _)
PointsOfPushes(metrics, pushes, i) ==
    IF i > Len(pushes) THEN <<>>
    ELSE PointsOfRequests(metrics[i], pushes[i].requests, 1)
             \o PointsOfPushes(metrics, pushes, i + 1)

\* C26: whenever Gather returns it returns nil and has called PushMetrics
\* once for every configured Metric, in configuration order, also after a
\* PushMetrics that returned an error.  Each PushMetrics asks for the names
\* of its Metric in order; the first name whose GetMetricStatistics call
\* fails is the last it asks for, and it returns an error then and nil
\* otherwise.  The accumulator holds the datapoints of every request that
\* did not fail, those before a failed request included.
C26_GatherPushesAll ==
    cwResult.done
        => /\ (cwResult.status # "panic")
                => /\ cwResult.status = "nil"
                   /\ Len(cwResult.pushes) = Len(cw.Metrics)
                   /\ \A i \in 1..Len(cwResult.pushes) :
                         cwResult.pushes[i].status \in {"nil", "error"}
           /\ Len(cwResult.pushes) <= Len(cw.Metrics)
           /\ \A i \in 1..Len(cwResult.pushes) :
                 LET p == cwResult.pushes[i]
                     names == cw.Metrics[i].MetricNames
                     n == Len(p.requests)
                 IN  /\ n <= Len(names)
                     /\ \A j \in 1..n :
                           /\ p.requests[j].params.MetricName = names[j]
                           /\ p.requests[j].reply.err
                                 => (j = n /\ p.status = "error")
                     /\ (p.status = "nil")
                           => (n = Len(names)
                                 /\ \A j \in 1..n : ~p.requests[j].reply.err)
                     /\ (p.status = "error")
                           => (n > 0 /\ p.requests[n].reply.err)
           /\ cwResult.acc = PointsOfPushes(cw.Metrics, cwResult.pushes, 1)

\* Gather returned on two Metrics: the first got datapoints for its first
\* name and an error for its second, the second Metric was pushed all the
\* same, and the datapoints of the first name are in the accumulator.
C26_Witness ==
    /\ cwResult.done
    /\ cwResult.status = "nil"
    /\ Len(cw.Metrics) = 2
    /\ Len(cwResult.pushes) = 2
    /\ cwResult.pushes[1].status = "error"
    /\ Len(cwResult.pushes[1].requests) = 2
    /\ ~cwResult.pushes[1].requests[1].reply.err
    /\ Len(cwResult.pushes[2].requests) = 1
    /\ cwResult.pushes[2].status = "nil"
    /\ Len(cwResult.acc) > 0
    /\ cwResult.acc[1].measurement = "CPUUtilization"

====
